---- MODULE Spec2Model ----
(***************************************************************************)
(* A state-machine model of eedl/zonal.py: zonal_stats pulls one result    *)
(* per feature from a rasterstats generator, projects it onto the output   *)
(* fields, buffers the projections and writes them to a CSV file in        *)
(* batches of write_batch_size, printing the running count as it goes.     *)
(***************************************************************************)
EXTENDS Integers, Sequences, FiniteSets, TLC

(***************************************************************************)
(* Bounds of the model.                                                    *)
(***************************************************************************)
MaxF == 5        \* longest feature sequence
MaxB == 3        \* largest write_batch_size
MaxT == 3        \* largest report_threshold

(***************************************************************************)
(* Python values.  A value carries its runtime type; v is an integer       *)
(* payload.  A float's payload counts millionths (3100004 is 3.100004); a  *)
(* str's payload n names the text that renders n hundred-thousandths with  *)
(* five fractional digits (310000 is "3.10000").                           *)
(***************************************************************************)
Val(t, n) == [tag |-> t, v |-> n]

None == -1       \* report_threshold=None

\* Python truthiness of report_threshold: None and 0 are both false.
Truthy(x) == x # None /\ x # 0

\* f"{x:.5f}" on a float of x millionths: the nearest multiple of 10
\* millionths, a tie going to the even neighbour; the result is a str.
Format5(x) ==
    LET q == x \div 10
        r == x % 10
        n == IF r < 5 THEN q
             ELSE IF r > 5 THEN q + 1
             ELSE IF q % 2 = 0 THEN q ELSE q + 1
    IN  Val("str", n)

(***************************************************************************)
(* The inputs: the features of the vector dataset and what the raster      *)
(* holds under each of them.                                               *)
(***************************************************************************)
Features ==
    { [geometry |-> 1,
       properties |-> [UniqueID |-> Val("int", 1), NAME |-> Val("str", 900)]],
      [geometry |-> 2,
       properties |-> [UniqueID |-> Val("str", 901), NAME |-> Val("float", 15)]],
      [geometry |-> 3,
       properties |-> [NAME |-> Val("int", 3)]] }

\* The statistic rasterstats computes for a geometry.
StatValue(g, s) ==
    CASE s = "mean"  -> IF g = 1 THEN Val("float", 3100004)
                        ELSE IF g = 2 THEN Val("NoneType", 0)
                        ELSE Val("float", -1234565)
      [] s = "count" -> IF g = 2 THEN Val("int", 0) ELSE Val("int", 4 + g)
      [] OTHER       -> Val("NoneType", 0)

\* The cell value rasterstats samples at a geometry.
PointValue(g) ==
    IF g = 1 THEN Val("float", 2500015)
    ELSE IF g = 2 THEN Val("int", 7)
    ELSE Val("NoneType", 0)

StatsChoices == { <<"mean">>, <<"count", "mean">> }
KeepChoices  == { <<"UniqueID">> }

Range(s) == { s[j] : j \in 1..Len(s) }

RECURSIVE SeqsUpTo(_, _)
SeqsUpTo(S, n) ==
    IF n = 0 THEN { <<>> }
    ELSE LET shorter == SeqsUpTo(S, n - 1)
         IN  shorter \cup { Append(s, x) : s \in { t \in shorter : Len(t) = n - 1 }, x \in S }

(***************************************************************************)
(* Paths and keyword dictionaries.  A path is a sequence of tokens, each   *)
(* token a run of characters: "/" the separator, "." the dot, and names    *)
(* that hold neither.  A dictionary is a function from its keys.           *)
(***************************************************************************)
EmptyDict == << >>

\* del d[k]
DictDel(d, k) == [x \in (DOMAIN d) \ {k} |-> d[x]]

\* s.endswith(suffix)
EndsWith(s, suffix) ==
    /\ Len(s) >= Len(suffix)
    /\ SubSeq(s, Len(s) - Len(suffix) + 1, Len(s)) = suffix

\* s.rstrip('/')
RECURSIVE RStripSep(_)
RStripSep(s) ==
    IF s # << >> /\ s[Len(s)] = "/" THEN RStripSep(SubSeq(s, 1, Len(s) - 1))
    ELSE s

\* os.path.split (posixpath): cut after the last separator; the head loses
\* its trailing separators unless it is made of separators only.
OsPathSplit(p) ==
    LET seps == { j \in 1..Len(p) : p[j] = "/" }
        cut  == IF seps = {} THEN 0
                ELSE CHOOSE j \in seps : \A k \in seps : k <= j
        head == SubSeq(p, 1, cut)
        tail == SubSeq(p, cut + 1, Len(p))
    IN  << IF head # << >> /\ \E j \in 1..Len(head) : head[j] # "/"
           THEN RStripSep(head) ELSE head,
           tail >>

\* _get_fiona_args with only the .gdb suffix recognised.
GetFionaArgs_GdbOnly(polygon_path) ==
    LET parts == OsPathSplit(polygon_path)
    IN  IF EndsWith(parts[1], << ".", "gdb" >>)
           /\ "." \notin { parts[2][j] : j \in 1..Len(parts[2]) }
        THEN [fp |-> parts[1], layer |-> parts[2]]
        ELSE [fp |-> polygon_path]

\* _get_fiona_args
GetFionaArgs(polygon_path) ==
    LET parts == OsPathSplit(polygon_path)
    IN  IF (EndsWith(parts[1], << ".", "gdb" >>) \/ EndsWith(parts[1], << ".", "gpkg" >>))
           /\ "." \notin { parts[2][j] : j \in 1..Len(parts[2]) }
        THEN [fp |-> parts[1], layer |-> parts[2]]
        ELSE [fp |-> polygon_path]

\* The paths and caller options the runs of the main specification use.
DefaultPath == << "x", ".", "gdb", "/", "x" >>
NoOptions == EmptyDict

VARIABLES
    features_path,      \* argument features (the path of the dataset)
    caller_kwargs,      \* the extra keyword options the caller passed
    kwargs,             \* local kwargs
    main_file_path,     \* local main_file_path (<<>> before line 74)
    open_call,          \* what fiona.open was called with
    engine_call,        \* what the rasterstats generator was called with
    run,                \* 1 in the first call, 2 in a repeated call
    prev,               \* what the first call left, once a second has begun
    features,           \* the features the dataset yields, in its order
    keep_fields,        \* argument keep_fields
    stats,              \* argument stats
    report_threshold,   \* argument report_threshold (None or an integer)
    write_batch_size,   \* argument write_batch_size
    use_points,         \* argument use_points
    pc,                 \* where the call is
    feats_open,         \* the fiona handle: "unopened", "open", "closed"
    csv_file,           \* the output file: "unopened", "open", "closed"
    fieldnames,         \* local fieldnames
    file_suffix,        \* local file_suffix
    pulled,             \* how many results the generator has yielded
    poly,               \* loop variable poly (<<>> before the first pull)
    i,                  \* local i
    results,            \* local results
    sink,               \* the rows in the output file, in order
    flushes,            \* the length of each writerows call, in order
    printed,            \* what print wrote, in order
    raised,             \* the exception that left the call ("" if none)
    retval              \* the returned path ("" while nothing is returned)

vars == << features, keep_fields, stats, report_threshold, write_batch_size,
           use_points, pc, feats_open, csv_file, fieldnames, file_suffix,
           pulled, poly, i, results, sink, flushes, printed, raised,
           retval, features_path, caller_kwargs, kwargs, main_file_path,
           open_call, engine_call, run, prev >>

args == << features, keep_fields, stats, report_threshold, write_batch_size,
           use_points, features_path, caller_kwargs >>

\* The locals of lines 73-90 and the record of an earlier call.
opened == << kwargs, main_file_path, open_call >>
hist == << run, prev >>

\* The locals and the outside world before the first statement runs.
Fresh ==
    /\ kwargs = caller_kwargs
    /\ main_file_path = << >>
    /\ open_call = [fn |-> ""]
    /\ engine_call = [fn |-> ""]
    /\ pc = "get_fiona_args"
    /\ feats_open = "unopened"
    /\ csv_file = "unopened"
    /\ fieldnames = <<>>
    /\ file_suffix = ""
    /\ pulled = 0
    /\ poly = <<>>
    /\ i = 0
    /\ results = <<>>
    /\ sink = <<>>
    /\ flushes = <<>>
    /\ printed = <<>>
    /\ raised = ""
    /\ retval = ""

Init ==
    /\ features \in SeqsUpTo(Features, MaxF)
    /\ keep_fields \in KeepChoices
    /\ stats \in StatsChoices
    /\ report_threshold \in {None} \cup (0..MaxT)
    /\ write_batch_size \in 1..MaxB
    /\ use_points \in BOOLEAN
    /\ features_path = DefaultPath
    /\ caller_kwargs = NoOptions
    /\ run = 1
    /\ prev = << >>
    /\ Fresh

(***************************************************************************)
(* Helpers of the loop body.                                               *)
(***************************************************************************)

\* What the generator yields for a feature (geojson_out=True): the feature
\* with the computed values added to its properties.
Merge(f, g) == [k \in (DOMAIN f) \cup (DOMAIN g) |-> IF k \in DOMAIN g THEN g[k] ELSE f[k]]

EngineResult(feat) ==
    IF use_points
    THEN [feat EXCEPT !.properties = Merge(@, [value |-> PointValue(feat.geometry)])]
    ELSE [feat EXCEPT !.properties =
            Merge(@, [s \in Range(stats) |-> StatValue(feat.geometry, s)])]

\* EngineCall with stats=stats handed to gen_point_query as well.
EngineCall_PointStats(points, st, kw) ==
    IF points
    THEN [fn |-> "gen_point_query", stats |-> st, geojson_out |-> TRUE,
          nodata |-> -9999, interpolate |-> "nearest", extra |-> kw]
    ELSE [fn |-> "gen_zonal_stats", stats |-> st, geojson_out |-> TRUE,
          nodata |-> -9999, extra |-> kw]

\* The call that makes the generator: gen_zonal_stats(feats_open, raster,
\* stats=stats, geojson_out=True, nodata=-9999, **kwargs), or
\* gen_point_query(feats_open, raster, geojson_out=True, nodata=-9999,
\* interpolate="nearest", **kwargs).
EngineCall(points, st, kw) ==
    IF points
    THEN [fn |-> "gen_point_query", geojson_out |-> TRUE, nodata |-> -9999,
          interpolate |-> "nearest", extra |-> kw]
    ELSE [fn |-> "gen_zonal_stats", stats |-> st, geojson_out |-> TRUE,
          nodata |-> -9999, extra |-> kw]

\* fieldnames with the kept fields put before the statistics.
FieldSpec_KeepFirst(points, st, keep) ==
    IF points THEN keep \o <<"value">> ELSE keep \o st

\* fieldnames: (*stats, *keep_fields), or ("value", *keep_fields) for points.
FieldSpec(points, st, keep) ==
    IF points THEN <<"value">> \o keep ELSE st \o keep

\* {key: poly['properties'][key] for key in fieldnames} raises KeyError
\* exactly when a key is not in the properties.
HasAllFields(p, names) == Range(names) \subseteq DOMAIN p.properties

\* Project without the truncation of lines 112-114.
Project_NoFormat(p, names) ==
    [key \in Range(names) |-> p.properties[key]]

\* The comprehension of line 110 followed by the float truncation.
Project(p, names) ==
    [key \in Range(names) |->
        IF p.properties[key].tag = "float"
        THEN Format5(p.properties[key].v)
        ELSE p.properties[key]]

\* csv.DictWriter lays a dict out in the order of its fieldnames.
HeaderRow(names) == [kind |-> "header", cells |-> names]
DataRow(rec, names) ==
    [kind |-> "data", cells |-> [j \in 1..Len(names) |-> rec[names[j]]]]

RECURSIVE RowsOf(_, _)
RowsOf(recs, names) ==
    IF recs = <<>> THEN <<>>
    ELSE <<DataRow(Head(recs), names)>> \o RowsOf(Tail(recs), names)

\* The test of line 118 taken modulo one more than the batch size.
BatchDue_OneMore(n, b) == n % (b + 1) = 0

\* if i % write_batch_size == 0
BatchDue(n, b) == n % b = 0

\* The test of line 122 on a count that starts at zero.
ReportDue_ZeroBased(n, t) == Truthy(t) /\ (n - 1) % t = 0

\* if report_threshold and i % report_threshold == 0
ReportDue(n, t) == Truthy(t) /\ n % t = 0

\* Raise without the with-block around fiona.open: the handle stays open.
Raise_NoWith(e) ==
    /\ pc' = "failed"
    /\ raised' = e
    /\ csv_file' = IF csv_file = "open" THEN "closed" ELSE csv_file
    /\ feats_open' = feats_open
    /\ results' = <<>>
    /\ retval' = ""

\* An exception leaving the function: both with-blocks close what they
\* have opened, the locals are gone and nothing is returned.
Raise(e) ==
    /\ pc' = "failed"
    /\ raised' = e
    /\ csv_file' = IF csv_file = "open" THEN "closed" ELSE csv_file
    /\ feats_open' = IF feats_open = "open" THEN "closed" ELSE feats_open
    /\ results' = <<>>
    /\ retval' = ""

(***************************************************************************)
(* The steps of zonal_stats.                                               *)
(***************************************************************************)

\* Lines 73-75: kwargs = _get_fiona_args(features), fp taken out of it.
ResolveArgs ==
    /\ pc = "get_fiona_args"
    /\ main_file_path' = GetFionaArgs(features_path).fp
    /\ kwargs' = DictDel(GetFionaArgs(features_path), "fp")
    /\ pc' = "open_features"
    /\ UNCHANGED << args, hist, open_call, engine_call, feats_open, csv_file,
                    fieldnames, file_suffix, pulled, poly, i, results, sink,
                    flushes, printed, raised, retval >>

\* fiona.open(main_file_path, **kwargs) succeeds.
OpenFeatures ==
    /\ pc = "open_features"
    /\ open_call' = [fn |-> "fiona.open", fp |-> main_file_path, extra |-> kwargs]
    /\ feats_open' = "open"
    /\ pc' = "make_generator"
    /\ UNCHANGED << args, hist, kwargs, main_file_path, engine_call, csv_file, fieldnames, file_suffix, pulled, poly, i,
                    results, sink, flushes, printed, raised, retval >>

\* fiona.open raises: the dataset cannot be opened.
OpenFeaturesFail ==
    /\ pc = "open_features"
    /\ open_call' = [fn |-> "fiona.open", fp |-> main_file_path, extra |-> kwargs]
    /\ Raise("OpenError")
    /\ UNCHANGED << args, hist, kwargs, main_file_path, engine_call, fieldnames, file_suffix, pulled, poly, i, sink,
                    flushes, printed >>

\* The generator is created (nothing is pulled yet) and the output fields
\* and the file suffix are fixed.
MakeGenerator ==
    /\ pc = "make_generator"
    /\ fieldnames' = FieldSpec(use_points, stats, keep_fields)
    /\ file_suffix' = IF use_points THEN "point_query" ELSE "zonal_stats"
    /\ engine_call' = EngineCall(use_points, stats, kwargs)
    /\ pc' = "open_sink"
    /\ UNCHANGED << args, hist, opened, feats_open, csv_file, pulled, poly, i, results,
                    sink, flushes, printed, raised, retval >>

\* OpenSink without writer.writeheader().
OpenSink_NoHeader ==
    /\ pc = "open_sink"
    /\ csv_file' = "open"
    /\ sink' = <<>>
    /\ results' = <<>>
    /\ i' = 0
    /\ pc' = "pull"
    /\ UNCHANGED << args, hist, opened, engine_call, feats_open, fieldnames, file_suffix, pulled, poly,
                    flushes, printed, raised, retval >>

\* open(output_filepath, 'w'), the DictWriter, writeheader, results = [].
OpenSink ==
    /\ pc = "open_sink"
    /\ csv_file' = "open"
    /\ sink' = << HeaderRow(fieldnames) >>
    /\ results' = <<>>
    /\ i' = 0
    /\ pc' = "pull"
    /\ UNCHANGED << args, hist, opened, engine_call, feats_open, fieldnames, file_suffix, pulled, poly,
                    flushes, printed, raised, retval >>

\* open(output_filepath, 'w') raises: the output file cannot be created.
OpenSinkFail ==
    /\ pc = "open_sink"
    /\ Raise("OSError")
    /\ UNCHANGED << args, hist, opened, engine_call, fieldnames, file_suffix, pulled, poly, i, sink,
                    flushes, printed >>

\* for poly in zstats_results_geo: the generator yields the next result.
Pull ==
    /\ pc = "pull"
    /\ pulled < Len(features)
    /\ pulled' = pulled + 1
    /\ poly' = EngineResult(features[pulled + 1])
    /\ pc' = "project"
    /\ UNCHANGED << args, hist, opened, engine_call, feats_open, csv_file, fieldnames, file_suffix, i,
                    results, sink, flushes, printed, raised, retval >>

\* The generator is exhausted: the loop ends.
PullStop ==
    /\ pc = "pull"
    /\ pulled = Len(features)
    /\ pc' = "final"
    /\ UNCHANGED << args, hist, opened, engine_call, feats_open, csv_file, fieldnames, file_suffix,
                    pulled, poly, i, results, sink, flushes, printed, raised, retval >>

\* PullFail with the buffer written out before the exception leaves.
PullFail_FlushBuffer ==
    /\ pc = "pull"
    /\ pulled < Len(features)
    /\ sink' = sink \o RowsOf(results, fieldnames)
    /\ Raise("ExtractionError")
    /\ UNCHANGED << args, hist, opened, engine_call, fieldnames, file_suffix,
                    pulled, poly, i, flushes, printed >>

\* The generator raises while computing the next result.
PullFail ==
    /\ pc = "pull"
    /\ pulled < Len(features)
    /\ Raise("ExtractionError")
    /\ UNCHANGED << args, hist, opened, engine_call, fieldnames, file_suffix, pulled, poly, i, sink,
                    flushes, printed >>

\* ProjectAndAppend putting the new record in front of the buffer.
ProjectAndAppend_Prepend ==
    /\ pc = "project"
    /\ HasAllFields(poly, fieldnames)
    /\ i' = i + 1
    /\ results' = << Project(poly, fieldnames) >> \o results
    /\ pc' = "batch"
    /\ UNCHANGED << args, hist, opened, engine_call, feats_open, csv_file,
                    fieldnames, file_suffix, pulled, poly, sink, flushes,
                    printed, raised, retval >>

\* Lines 110-117: project poly, truncate the floats, count it, buffer it.
ProjectAndAppend ==
    /\ pc = "project"
    /\ HasAllFields(poly, fieldnames)
    /\ i' = i + 1
    /\ results' = Append(results, Project(poly, fieldnames))
    /\ pc' = "batch"
    /\ UNCHANGED << args, hist, opened, engine_call, feats_open, csv_file, fieldnames, file_suffix,
                    pulled, poly, sink, flushes, printed, raised, retval >>

\* ProjectFail with the KeyError caught and the feature skipped.
ProjectFail_Skip ==
    /\ pc = "project"
    /\ ~HasAllFields(poly, fieldnames)
    /\ pc' = "pull"
    /\ UNCHANGED << args, hist, opened, engine_call, feats_open, csv_file, fieldnames, file_suffix,
                    pulled, poly, i, results, sink, flushes, printed, raised,
                    retval >>

\* ProjectFail with the KeyError caught and the same feature pulled again.
ProjectFail_Retry ==
    /\ pc = "project"
    /\ ~HasAllFields(poly, fieldnames)
    /\ pulled' = pulled - 1
    /\ pc' = "pull"
    /\ UNCHANGED << args, hist, opened, engine_call, feats_open, csv_file,
                    fieldnames, file_suffix, poly, i, results, sink, flushes,
                    printed, raised, retval >>

\* Line 110 raises KeyError: a field of fieldnames is not in the properties.
ProjectFail ==
    /\ pc = "project"
    /\ ~HasAllFields(poly, fieldnames)
    /\ Raise("KeyError")
    /\ UNCHANGED << args, hist, opened, engine_call, fieldnames, file_suffix, pulled, poly, i, sink,
                    flushes, printed >>

\* WriteBatch without results = []: the buffer is written and kept.
WriteBatch_KeepBuffer ==
    /\ pc = "batch"
    /\ BatchDue(i, write_batch_size)
    /\ sink' = sink \o RowsOf(results, fieldnames)
    /\ flushes' = Append(flushes, Len(results))
    /\ pc' = "report"
    /\ UNCHANGED << args, hist, opened, engine_call, feats_open, csv_file, fieldnames, file_suffix,
                    pulled, poly, i, results, printed, raised, retval >>

\* Lines 118-120 when the count is a multiple of the batch size.
WriteBatch ==
    /\ pc = "batch"
    /\ BatchDue(i, write_batch_size)
    /\ sink' = sink \o RowsOf(results, fieldnames)
    /\ flushes' = Append(flushes, Len(results))
    /\ results' = <<>>
    /\ pc' = "report"
    /\ UNCHANGED << args, hist, opened, engine_call, feats_open, csv_file, fieldnames, file_suffix,
                    pulled, poly, i, printed, raised, retval >>

\* WriteBatchFail that rewinds the output file to its header on failure.
WriteBatchFail_Rollback ==
    /\ pc = "batch"
    /\ BatchDue(i, write_batch_size)
    /\ sink' = << sink[1] >>
    /\ Raise("OSError")
    /\ UNCHANGED << args, hist, opened, engine_call, fieldnames, file_suffix, pulled, poly, i, flushes,
                    printed >>

\* writerows raises part-way: the rows before the failing one are written.
WriteBatchFail ==
    /\ pc = "batch"
    /\ BatchDue(i, write_batch_size)
    /\ \E n \in 0..(Len(results) - 1) :
          sink' = sink \o RowsOf(SubSeq(results, 1, n), fieldnames)
    /\ Raise("OSError")
    /\ UNCHANGED << args, hist, opened, engine_call, fieldnames, file_suffix, pulled, poly, i, flushes,
                    printed >>

\* Line 118 when the count is not a multiple of the batch size.
SkipBatch ==
    /\ pc = "batch"
    /\ ~BatchDue(i, write_batch_size)
    /\ pc' = "report"
    /\ UNCHANGED << args, hist, opened, engine_call, feats_open, csv_file, fieldnames, file_suffix,
                    pulled, poly, i, results, sink, flushes, printed, raised, retval >>

\* Report that also writes the buffer out whenever it prints.
Report_FlushOnPrint ==
    /\ pc = "report"
    /\ IF ReportDue(i, report_threshold)
       THEN /\ printed' = Append(printed, [n |-> i, at |-> "loop"])
            /\ sink' = sink \o RowsOf(results, fieldnames)
            /\ flushes' = IF results = <<>> THEN flushes
                          ELSE Append(flushes, Len(results))
            /\ results' = <<>>
       ELSE UNCHANGED << printed, sink, flushes, results >>
    /\ pc' = "pull"
    /\ UNCHANGED << args, hist, opened, engine_call, feats_open, csv_file,
                    fieldnames, file_suffix, pulled, poly, i, raised, retval >>

\* Lines 122-123: print(i) when the threshold is set and divides the count.
Report ==
    /\ pc = "report"
    /\ printed' = IF ReportDue(i, report_threshold)
                  THEN Append(printed, [n |-> i, at |-> "loop"])
                  ELSE printed
    /\ pc' = "pull"
    /\ UNCHANGED << args, hist, opened, engine_call, feats_open, csv_file, fieldnames, file_suffix,
                    pulled, poly, i, results, sink, flushes, raised, retval >>

\* Final without the writerows of line 126: the remainder is not written.
Final_NoFlush ==
    /\ pc = "final"
    /\ IF results # <<>>
       THEN /\ printed' = Append(printed, [n |-> i, at |-> "final"])
            /\ UNCHANGED << sink, flushes >>
       ELSE UNCHANGED << sink, flushes, printed >>
    /\ pc' = "close_sink"
    /\ UNCHANGED << args, hist, opened, engine_call, feats_open, csv_file, fieldnames, file_suffix,
                    pulled, poly, i, results, raised, retval >>

\* Final with print(i) outside the if: the count is printed in every run.
Final_PrintAlways ==
    /\ pc = "final"
    /\ IF results # <<>>
       THEN /\ sink' = sink \o RowsOf(results, fieldnames)
            /\ flushes' = Append(flushes, Len(results))
       ELSE UNCHANGED << sink, flushes >>
    /\ printed' = Append(printed, [n |-> i, at |-> "final"])
    /\ pc' = "close_sink"
    /\ UNCHANGED << args, hist, opened, engine_call, feats_open, csv_file, fieldnames, file_suffix,
                    pulled, poly, i, results, raised, retval >>

\* Lines 125-127: write what is left in the buffer, then print(i).
Final ==
    /\ pc = "final"
    /\ IF results # <<>>
       THEN /\ sink' = sink \o RowsOf(results, fieldnames)
            /\ flushes' = Append(flushes, Len(results))
            /\ printed' = Append(printed, [n |-> i, at |-> "final"])
       ELSE UNCHANGED << sink, flushes, printed >>
    /\ pc' = "close_sink"
    /\ UNCHANGED << args, hist, opened, engine_call, feats_open, csv_file, fieldnames, file_suffix,
                    pulled, poly, i, results, raised, retval >>

\* The writerows of line 126 raises part-way: nothing is printed.
FinalFail ==
    /\ pc = "final"
    /\ results # <<>>
    /\ \E n \in 0..(Len(results) - 1) :
          sink' = sink \o RowsOf(SubSeq(results, 1, n), fieldnames)
    /\ Raise("OSError")
    /\ UNCHANGED << args, hist, opened, engine_call, fieldnames, file_suffix, pulled, poly, i, flushes,
                    printed >>

\* The inner with-block ends: the output file is closed.
CloseSink ==
    /\ pc = "close_sink"
    /\ csv_file' = "closed"
    /\ pc' = "close_features"
    /\ UNCHANGED << args, hist, opened, engine_call, feats_open, fieldnames, file_suffix, pulled, poly,
                    i, results, sink, flushes, printed, raised, retval >>

\* The outer with-block ends: the fiona handle is closed.
CloseFeatures ==
    /\ pc = "close_features"
    /\ feats_open' = "closed"
    /\ pc' = "return"
    /\ UNCHANGED << args, hist, opened, engine_call, csv_file, fieldnames, file_suffix, pulled, poly, i,
                    results, sink, flushes, printed, raised, retval >>

\* return output_filepath
Return ==
    /\ pc = "return"
    /\ retval' = "filename_" \o file_suffix \o ".csv"
    /\ pc' = "done"
    /\ UNCHANGED << args, hist, opened, engine_call, feats_open, csv_file, fieldnames, file_suffix,
                    pulled, poly, i, results, sink, flushes, printed, raised >>

Next ==
    \/ ResolveArgs
    \/ OpenFeatures
    \/ OpenFeaturesFail
    \/ MakeGenerator
    \/ OpenSink
    \/ OpenSinkFail
    \/ Pull
    \/ PullStop
    \/ PullFail
    \/ ProjectAndAppend
    \/ ProjectFail
    \/ WriteBatch
    \/ WriteBatchFail
    \/ SkipBatch
    \/ Report
    \/ Final
    \/ FinalFail
    \/ CloseSink
    \/ CloseFeatures
    \/ Return

Spec == Init /\ [][Next]_vars

TypeOK ==
    /\ pc \in { "get_fiona_args", "open_features", "make_generator", "open_sink", "pull",
                "project", "batch", "report", "final", "close_sink",
                "close_features", "return", "done", "failed" }
    /\ feats_open \in { "unopened", "open", "closed" }
    /\ csv_file \in { "unopened", "open", "closed" }
    /\ i \in 0..Len(features)
    /\ pulled \in 0..Len(features)
    /\ raised \in { "", "OpenError", "OSError", "ExtractionError", "KeyError" }
    /\ (raised # "") = (pc = "failed")
    /\ run \in { 1, 2 }
    /\ DOMAIN kwargs \subseteq { "layer", "all_touched" }
(***************************************************************************)
(* Properties.                                                             *)
(***************************************************************************)

IsPrefix(s, t) == Len(s) <= Len(t) /\ SubSeq(t, 1, Len(s)) = s

\* The row a feature should give: its engine result projected and laid out.
ExpectedRow(feat) ==
    DataRow(Project(EngineResult(feat), fieldnames), fieldnames)

\* The data rows of the output file (all rows after the header).
DataRows == IF sink = <<>> THEN <<>> ELSE Tail(sink)

Succeeded == pc = "done"

\* C1: when zonal_stats has returned, the data rows of the output file are
\* exactly one row per feature, in the order the generator yielded them.
C1_RowsAreFeaturesInOrder ==
    Succeeded =>
        /\ Len(DataRows) = Len(features)
        /\ \A j \in 1..Len(features) : DataRows[j] = ExpectedRow(features[j])

\* A run over three or more features, not all alike, written in more than
\* one batch, has returned.
C1_Witness ==
    /\ Succeeded
    /\ Len(features) >= 3
    /\ features[1] # features[2]
    /\ Len(flushes) >= 2

\* C2: a successful run made ceil(F / B) writerows calls; each but the last
\* wrote exactly B records and the last wrote between 1 and B.
C2_FlushCountAndSizes ==
    Succeeded =>
        LET F == Len(features)
            B == write_batch_size
        IN  /\ Len(flushes) = (F + B - 1) \div B
            /\ \A j \in 1..Len(flushes) :
                  /\ flushes[j] \in 1..B
                  /\ j < Len(flushes) => flushes[j] = B

\* A successful run whose last writerows call wrote a partial batch after
\* a full one.
C2_Witness ==
    /\ Succeeded
    /\ Len(flushes) >= 2
    /\ flushes[Len(flushes)] < write_batch_size

C4_HeaderOnceAndFirst ==
    csv_file # "unopened" =>
        /\ Len(sink) >= 1
        /\ sink[1].kind = "header"
        /\ sink[1].cells = fieldnames
        /\ \A j \in 2..Len(sink) : sink[j].kind = "data"

\* A run has failed in the loop after data rows were written.
C4_Witness ==
    /\ pc = "failed"
    /\ csv_file = "closed"
    /\ Len(sink) >= 2
    /\ sink[1].kind = "header"

\* The features whose engine result lacks a configured output field.
LacksField(feat) ==
    ~HasAllFields(EngineResult(feat), FieldSpec(use_points, stats, keep_fields))

HasLacking == \E k \in 1..Len(features) : LacksField(features[k])

FirstLacking ==
    CHOOSE k \in 1..Len(features) :
        /\ LacksField(features[k])
        /\ \A j \in 1..(k - 1) : ~LacksField(features[j])

\* C5: when feature k is the first whose result lacks a configured field,
\* the run never gets past projecting feature k: nothing after k is pulled,
\* the data rows written are rows of features before k (none for k, none
\* with a substituted value), and no path is returned.
C5_MissingFieldFailsRun ==
    HasLacking =>
        LET k == FirstLacking
        IN  /\ pulled <= k
            /\ pulled = k => pc \in { "project", "failed" }
            /\ i <= k - 1
            /\ Len(DataRows) <= k - 1
            /\ \A j \in 1..Len(DataRows) : DataRows[j] = ExpectedRow(features[j])
            /\ retval = ""
            /\ pc # "done"

\* The run has failed with KeyError at a feature that lacks a field, after
\* rows of earlier features were written.
C5_Witness ==
    /\ HasLacking
    /\ pc = "failed"
    /\ raised = "KeyError"
    /\ pulled = FirstLacking
    /\ Len(DataRows) >= 1

\* C6: the output file only grows: every step, a failing one included,
\* leaves the rows already written where they were; and once an exception
\* has left the call, no path is ever returned.
C6_SinkAppendOnly ==
    /\ [][IsPrefix(sink, sink')]_vars
    /\ [](raised # "" => (retval = "" /\ pc = "failed"))
    /\ [][raised # "" => (raised' = raised /\ retval' = "")]_vars

\* A run has failed in a writerows call after a whole batch and part of
\* the next were written.
C6_Witness ==
    /\ pc = "failed"
    /\ raised = "OSError"
    /\ flushes # <<>>
    /\ Len(DataRows) > flushes[1]

\* C7: in every terminal state the fiona handle, if it was opened, is
\* closed, whether the call returned or an exception left it; and a result
\* is pulled from the generator only while the handle is open.
C7_HandleReleased ==
    /\ [](pc \in { "done", "failed" } =>
             \/ feats_open = "closed"
             \/ (feats_open = "unopened" /\ raised = "OpenError"))
    /\ [][pulled' # pulled => (feats_open = "open" /\ feats_open' = "open")]_vars
    /\ [][feats_open = "closed" => (feats_open' = "closed" /\ pulled' = pulled)]_vars

\* A run has failed in the loop (extraction, projection or writing) after
\* results were pulled, and the handle is closed.
C7_Witness ==
    /\ pc = "failed"
    /\ raised \in { "ExtractionError", "KeyError", "OSError" }
    /\ pulled >= 2
    /\ feats_open = "closed"

IsLoop(e) == e.at = "loop"
IsFinal(e) == e.at = "final"

\* The counts printed inside the loop, in order.
LoopCounts ==
    LET l == SelectSeq(printed, IsLoop)
    IN  [j \in 1..Len(l) |-> l[j].n]

\* <<t, 2t, ..., (m \div t) * t>>
Multiples(m, t) == [j \in 1..(IF m <= 0 THEN 0 ELSE m \div t) |-> j * t]

\* C8: with report_threshold T >= 1, the counts printed inside the loop are
\* the multiples of T up to the number of features whose iteration has got
\* past the report, each once and in increasing order; a successful run
\* printed T, 2T, ..., floor(F / T) * T inside the loop and nothing else.
C8_LoopReportsMultiples ==
    (report_threshold # None /\ report_threshold >= 1) =>
        LET T == report_threshold
        IN  /\ pc \notin { "batch", "report", "failed" } => LoopCounts = Multiples(i, T)
            /\ pc \in { "batch", "report" } => LoopCounts = Multiples(i - 1, T)
            /\ pc = "failed" => LoopCounts \in { Multiples(i, T), Multiples(i - 1, T) }
            /\ Succeeded => LoopCounts = Multiples(Len(features), T)

\* A successful run over F features with 2T <= F and F not a multiple of T
\* (as T = 1000, F = 2500) printed T and 2T inside the loop.
C8_Witness ==
    /\ Succeeded
    /\ report_threshold >= 2
    /\ Len(features) >= 2 * report_threshold
    /\ Len(features) % report_threshold # 0
    /\ Len(LoopCounts) = 2

\* C9 as stated: every successful run ends its output with a final count
\* equal to F.
C9_Original ==
    Succeeded =>
        /\ printed # <<>>
        /\ printed[Len(printed)] = [n |-> Len(features), at |-> "final"]

\* C9 amended: a successful run over F features, F not a multiple of
\* write_batch_size, prints F once at the end, after every count printed
\* in the loop, whatever report_threshold is; a successful run with F a
\* multiple of write_batch_size (F = 0 included) prints no final count.
C9_FinalCountIffRemainder ==
    Succeeded =>
        IF Len(features) % write_batch_size # 0
        THEN /\ printed # <<>>
             /\ printed[Len(printed)] = [n |-> Len(features), at |-> "final"]
             /\ \A j \in 1..(Len(printed) - 1) : printed[j].at = "loop"
        ELSE \A j \in 1..Len(printed) : printed[j].at = "loop"

\* A successful run printed counts in the loop and then the final count.
C9_Witness ==
    /\ Succeeded
    /\ Len(features) % write_batch_size # 0
    /\ Len(printed) >= 2
    /\ printed[Len(printed)].at = "final"

\* C10: with report_threshold=None nothing is ever printed.
C10_DisabledPrintsNothing ==
    report_threshold = None => printed = <<>>

(***************************************************************************)
(* _get_fiona_args on its own: the paths of up to MaxPath tokens and the   *)
(* three paths the documentation gives as examples.                        *)
(***************************************************************************)
MaxPath == 5

PathTokens == { "/", ".", "gdb", "gpkg", "x" }

ExampleLayer == << "data", ".", "gdb", "/", "layer1" >>
ExampleFile  == << "data", ".", "shp" >>
ExampleDot   == << "data", ".", "gpkg", "/", "layer", ".", "with", ".", "dot" >>

Paths == SeqsUpTo(PathTokens, MaxPath) \cup { ExampleLayer, ExampleFile, ExampleDot }

InitArgs ==
    /\ features_path \in Paths
    /\ features = << >>
    /\ keep_fields = << "UniqueID" >>
    /\ stats = << "mean" >>
    /\ report_threshold = None
    /\ write_batch_size = 1
    /\ use_points = FALSE
    /\ caller_kwargs = NoOptions
    /\ run = 1
    /\ prev = << >>
    /\ Fresh

NextArgs == ResolveArgs

SpecArgs == InitArgs /\ [][NextArgs]_vars

\* The leaf segment of a path: what follows its last separator.
LeafOf(p) ==
    LET n == CHOOSE n \in 0..Len(p) :
                /\ \A j \in (Len(p) - n + 1)..Len(p) : p[j] # "/"
                /\ n = Len(p) \/ p[Len(p) - n] = "/"
    IN  SubSeq(p, Len(p) - n + 1, Len(p))

\* The parent segment of a path: what precedes the leaf, without the
\* separators that end it (kept when it holds nothing else).
ParentOf(p) ==
    LET rest == SubSeq(p, 1, Len(p) - Len(LeafOf(p)))
        m == CHOOSE m \in 0..Len(rest) :
                /\ \A j \in (m + 1)..Len(rest) : rest[j] = "/"
                /\ m = 0 \/ rest[m] # "/"
    IN  IF m = 0 THEN rest ELSE SubSeq(rest, 1, m)

IsContainerLayer(p) ==
    /\ \/ EndsWith(ParentOf(p), << ".", "gdb" >>)
       \/ EndsWith(ParentOf(p), << ".", "gpkg" >>)
    /\ \A j \in 1..Len(LeafOf(p)) : LeafOf(p)[j] # "."

\* C12: _get_fiona_args returns for every path; the result has a layer
\* exactly when the parent segment ends with .gdb or .gpkg and the leaf
\* holds no dot; then fp is the parent and layer the leaf, otherwise fp is
\* the whole path (data.gdb/layer1, data.shp and data.gpkg/layer.with.dot
\* resolve as documented).
C12_ContainerResolution ==
    /\ pc = "get_fiona_args" => ENABLED ResolveArgs
    /\ pc = "open_features" =>
          /\ ("layer" \in DOMAIN kwargs) <=> IsContainerLayer(features_path)
          /\ IsContainerLayer(features_path) =>
                /\ main_file_path = ParentOf(features_path)
                /\ kwargs = [layer |-> LeafOf(features_path)]
          /\ ~IsContainerLayer(features_path) =>
                /\ main_file_path = features_path
                /\ kwargs = EmptyDict
          /\ features_path = ExampleLayer =>
                /\ main_file_path = << "data", ".", "gdb" >>
                /\ kwargs = [layer |-> << "layer1" >>]
          /\ features_path = ExampleFile =>
                /\ main_file_path = ExampleFile
                /\ kwargs = EmptyDict
          /\ features_path = ExampleDot =>
                /\ main_file_path = ExampleDot
                /\ kwargs = EmptyDict

\* A path into a .gpkg container has been resolved to the container and a
\* layer name.
C12_Witness ==
    /\ pc = "open_features"
    /\ "layer" \in DOMAIN kwargs
    /\ EndsWith(main_file_path, << ".", "gpkg" >>)
    /\ Len(main_file_path) >= 3
    /\ kwargs.layer = << "x" >>

(***************************************************************************)
(* Calls with a wider choice of arguments over short feature sequences.    *)
(***************************************************************************)
OptMaxF == 2

StatsOptions == { << "mean" >>, << "count", "mean" >>, << "mean", "count" >> }
KeepOptions  == { << "UniqueID" >>, << "UniqueID", "NAME" >>, << "NAME", "UniqueID" >> }
PathChoices  == { DefaultPath, ExampleFile }
KwargsChoices == { NoOptions, [all_touched |-> 1] }

InitOptions ==
    /\ features \in SeqsUpTo(Features, OptMaxF)
    /\ keep_fields \in KeepOptions
    /\ stats \in StatsOptions
    /\ report_threshold \in { None, 1 }
    /\ write_batch_size \in 1..MaxB
    /\ use_points \in BOOLEAN
    /\ features_path \in PathChoices
    /\ caller_kwargs \in KwargsChoices
    /\ run = 1
    /\ prev = << >>
    /\ Fresh

SpecOptions == InitOptions /\ [][Next]_vars

\* C13: the extra keyword options the generator is called with are the
\* extra keyword options the caller passed.
C13_KwargsPassedThrough ==
    engine_call.fn # "" => engine_call.extra = caller_kwargs

\* The output fields as documented: the statistics (or "value" for points)
\* followed by the kept fields, each in the given order.
DocumentedFields ==
    IF use_points THEN << "value" >> \o keep_fields ELSE stats \o keep_fields

\* C14: fieldnames is set once, before the output file is opened, to the
\* statistics in the given order (the single field "value" for points)
\* followed by the kept fields in the given order, it never changes after
\* that, and the header row of the file is this sequence.
C14_FieldSpecOrder ==
    /\ [](csv_file # "unopened" =>
             /\ fieldnames = DocumentedFields
             /\ sink[1].kind = "header"
             /\ sink[1].cells = DocumentedFields)
    /\ [](Len(sink) >= 2 => fieldnames = DocumentedFields)
    /\ [][fieldnames # << >> => fieldnames' = fieldnames]_vars

\* A zonal run with two statistics and two kept fields has written its
\* header and a data row.
C14_Witness ==
    /\ ~use_points
    /\ Len(stats) = 2
    /\ Len(keep_fields) = 2
    /\ keep_fields[1] = "NAME"
    /\ Len(sink) >= 2
    /\ sink[1].cells = << stats[1], stats[2], "NAME", "UniqueID" >>

(***************************************************************************)
(* Two calls on the same dataset: when the first call has ended, a second  *)
(* is made whose arguments differ in report_threshold only or, for points, *)
(* in stats only.  What the first call left is kept in prev.               *)
(***************************************************************************)
PairMaxF == 3

\* The failures that come from outside the call (the files, the raster).
EnvFailures == { "OpenError", "OSError", "ExtractionError" }

\* Where the outside world made the call fail, if it did.
Fate ==
    IF raised \in EnvFailures THEN << raised, pulled, Len(sink) >>
    ELSE << "none", 0, 0 >>

InitPair ==
    /\ features \in SeqsUpTo(Features, PairMaxF)
    /\ keep_fields \in KeepChoices
    /\ stats \in StatsChoices
    /\ report_threshold \in {None} \cup (0..MaxT)
    /\ write_batch_size \in 1..MaxB
    /\ use_points \in BOOLEAN
    /\ features_path = DefaultPath
    /\ caller_kwargs = NoOptions
    /\ run = 1
    /\ prev = << >>
    /\ Fresh

\* The second call.  The pairs of thresholds are taken in one order only:
\* the comparison of two calls does not depend on which came first.
Rerun ==
    /\ run = 1
    /\ pc \in { "done", "failed" }
    /\ run' = 2
    /\ prev' = [ report_threshold |-> report_threshold, stats |-> stats,
                 fate |-> Fate, sink |-> sink, flushes |-> flushes,
                 raised |-> raised, retval |-> retval,
                 fieldnames |-> fieldnames, engine_call |-> engine_call ]
    /\ \/ /\ \E t \in {None} \cup (0..MaxT) :
                t > report_threshold /\ report_threshold' = t
          /\ stats' = stats
       \/ /\ use_points
          /\ \E st \in StatsChoices : st # stats /\ stats' = st
          /\ report_threshold' = report_threshold
    /\ kwargs' = caller_kwargs
    /\ main_file_path' = << >>
    /\ open_call' = [fn |-> ""]
    /\ engine_call' = [fn |-> ""]
    /\ pc' = "get_fiona_args"
    /\ feats_open' = "unopened"
    /\ csv_file' = "unopened"
    /\ fieldnames' = <<>>
    /\ file_suffix' = ""
    /\ pulled' = 0
    /\ poly' = <<>>
    /\ i' = 0
    /\ results' = <<>>
    /\ sink' = <<>>
    /\ flushes' = <<>>
    /\ printed' = <<>>
    /\ raised' = ""
    /\ retval' = ""
    /\ UNCHANGED << features, keep_fields, write_batch_size, use_points,
                    features_path, caller_kwargs >>

NextPair == Next \/ Rerun

SpecPair == InitPair /\ [][NextPair]_vars

\* The second call has ended where the outside world treated it as it
\* treated the first.
SecondEndedAlike ==
    /\ run = 2
    /\ pc \in { "done", "failed" }
    /\ Fate = prev.fate

C15_PointModeIgnoresStats ==
    (SecondEndedAlike /\ use_points /\ stats # prev.stats) =>
        /\ fieldnames = prev.fieldnames
        /\ engine_call = prev.engine_call
        /\ sink = prev.sink
        /\ (sink # <<>> => sink[1] = prev.sink[1])
        /\ raised = prev.raised

\* Two successful point-mode calls with different stats have written rows.
C15_Witness ==
    /\ SecondEndedAlike
    /\ use_points
    /\ stats # prev.stats
    /\ pc = "done"
    /\ engine_call.fn = "gen_point_query"
    /\ Len(sink) >= 3

(***************************************************************************)
(* Properties of the projection, the counts and the buffer.                *)
(***************************************************************************)

\* The text n renders the float x to five fractional digits: n hundred-
\* thousandths is a nearest neighbour of x millionths.
IsRendering(n, x) == (10 * n - x) \in -5..5

\* What a raw value must become in the output.
ProjectedAs(out, raw) ==
    IF raw.tag = "float"
    THEN out.tag = "str" /\ IsRendering(out.v, raw.v)
    ELSE out = raw

\* C16: every record in the buffer has exactly the output fields as keys;
\* a float of the raw record is replaced by its five-digit text and any
\* other value is kept as it is; every data row in the file has one cell
\* per output field, made the same way, so no other field of the raw
\* record (the geometry, other attributes) reaches the buffer or the file.
C16_ProjectionKeepsOnlyFieldSpec ==
    /\ \A j \in 1..Len(results) :
          LET raw == EngineResult(features[i - Len(results) + j]).properties
          IN  /\ DOMAIN results[j] = Range(DocumentedFields)
              /\ \A key \in DOMAIN results[j] : ProjectedAs(results[j][key], raw[key])
    /\ \A j \in 1..Len(DataRows) :
          LET raw == EngineResult(features[j]).properties
          IN  /\ DataRows[j].kind = "data"
              /\ Len(DataRows[j].cells) = Len(DocumentedFields)
              /\ \A k \in 1..Len(DocumentedFields) :
                    ProjectedAs(DataRows[j].cells[k], raw[DocumentedFields[k]])

\* The buffer holds the projection of a zonal result: the float mean became
\* text, the integer count and identifier are unchanged, and the attribute
\* NAME of the feature is not in it.
C16_Witness ==
    /\ ~use_points
    /\ stats = << "count", "mean" >>
    /\ keep_fields = << "UniqueID" >>
    /\ Len(results) >= 1
    /\ poly # << >>
    /\ "NAME" \in DOMAIN poly.properties
    /\ results[1]["mean"] = Val("str", 310000)
    /\ results[1]["count"] = Val("int", 5)
    /\ results[1]["UniqueID"] = Val("int", 1)
    /\ DOMAIN results[1] = { "count", "mean", "UniqueID" }

\* Some count was printed twice.
HasRepeat ==
    \E j, k \in 1..Len(printed) : j < k /\ printed[j].n = printed[k].n

\* C17 as stated: no count is printed twice.
C17_Original == ~HasRepeat

\* C17 amended: the counts printed in the loop are strictly increasing and
\* at most one final count is printed, as the last thing; a count is printed
\* twice only as the last loop count repeated by the final count, and a
\* successful run does so exactly when the threshold is set, F is a
\* multiple of it and F is not a multiple of write_batch_size.
C17_RepeatOnlyAtFinal ==
    /\ \A j, k \in 1..Len(printed) :
          (j < k /\ printed[k].at = "loop") =>
              (printed[j].at = "loop" /\ printed[j].n < printed[k].n)
    /\ \A j \in 1..Len(printed) : printed[j].at = "final" => j = Len(printed)
    /\ \A j, k \in 1..Len(printed) :
          (j < k /\ printed[j].n = printed[k].n) =>
              (j = k - 1 /\ printed[j].at = "loop" /\ printed[k].at = "final")
    /\ Succeeded =>
          (HasRepeat <=>
              /\ Truthy(report_threshold)
              /\ Len(features) % report_threshold = 0
              /\ Len(features) % write_batch_size # 0)

\* A successful run printed its last count in the loop and again at the
\* end.
C17_Witness ==
    /\ Succeeded
    /\ HasRepeat
    /\ report_threshold >= 2
    /\ printed[Len(printed)].n = Len(features)

\* C18: whenever an iteration of the loop is complete, with i features
\* processed, the rows in the file and the records in the buffer number i
\* together, the buffer holds i mod B records, and the rows in the file
\* followed by the rows of the buffer are the rows of the first i features
\* in order.
C18_Conservation ==
    pc = "pull" =>
        /\ Len(DataRows) + Len(results) = i
        /\ Len(results) = i % write_batch_size
        /\ DataRows \o RowsOf(results, fieldnames) =
              [j \in 1..i |-> ExpectedRow(features[j])]

\* Three or more iterations are complete, with rows of different features
\* both in the file and in the buffer.
C18_Witness ==
    /\ pc = "pull"
    /\ i >= 3
    /\ Len(DataRows) >= 1
    /\ Len(results) >= 2
    /\ features[i] # features[i - 1]

\* C19: when the call fails pulling or projecting feature k, the buffer is
\* dropped unwritten and the file holds the header and exactly the first
\* B * floor((k - 1) / B) data rows, a multiple of B.
C19_FailureKeepsWholeBatches ==
    (pc = "failed" /\ raised \in { "ExtractionError", "KeyError" }) =>
        LET k == IF raised = "KeyError" THEN pulled ELSE pulled + 1
            B == write_batch_size
        IN  /\ results = << >>
            /\ Len(sink) >= 1
            /\ sink[1].kind = "header"
            /\ Len(DataRows) = B * ((k - 1) \div B)
            /\ Len(DataRows) % B = 0
            /\ \A j \in 1..Len(DataRows) : DataRows[j] = ExpectedRow(features[j])

\* The generator failed at the fourth feature with batches of two: the
\* third feature was in the buffer and is not in the file.
C19_Witness ==
    /\ pc = "failed"
    /\ raised = "ExtractionError"
    /\ write_batch_size = 2
    /\ i = 3
    /\ Len(DataRows) = 2

(***************************************************************************)
(* Termination.  The call is one thread of control: a statement that can   *)
(* run does run, which is weak fairness of the next-state relation.        *)
(***************************************************************************)
LiveMaxF == 3

InitLive ==
    /\ features \in SeqsUpTo(Features, LiveMaxF)
    /\ keep_fields \in KeepChoices
    /\ stats \in StatsChoices
    /\ report_threshold \in { None, 2 }
    /\ write_batch_size \in 1..MaxB
    /\ use_points \in BOOLEAN
    /\ features_path = DefaultPath
    /\ caller_kwargs = NoOptions
    /\ run = 1
    /\ prev = << >>
    /\ Fresh

SpecLive == InitLive /\ [][Next]_vars /\ WF_vars(Next)

Ended == pc \in { "done", "failed" }

\* C20: every call ends, by returning the path or by an exception; when it
\* has ended neither the output file nor the fiona handle is open; a call
\* that returned pulled every feature once; the generator only moves
\* forward, one feature at a time, and nothing runs after the end (no
\* retry, no second pass).
C20_Terminates ==
    /\ <>Ended
    /\ [](Ended => (csv_file # "open" /\ feats_open # "open"))
    /\ [](pc = "done" =>
             (pulled = Len(features) /\ i = Len(features) /\ retval # ""))
    /\ [][pulled' = pulled \/ pulled' = pulled + 1]_vars
    /\ [][Ended => (pc' = pc /\ pulled' = pulled)]_vars

\* A call over two or more features has returned with both files closed.
C20_Witness ==
    /\ pc = "done"
    /\ Len(features) >= 2
    /\ pulled = Len(features)
    /\ csv_file = "closed"
    /\ feats_open = "closed"
====
